---- MODULE Spec2Model ----
(***************************************************************************)
(* Model of problemsets/pset3/georgia_jobs_map.py: the geocode / cache /    *)
(* merge pipeline.  One behaviour is a sequence of runs of the script over  *)
(* the same input file; the cache file is the only state that survives a    *)
(* run.  A run may be killed at any statement of the geocoding loop.        *)
(*                                                                         *)
(* Strings are TLA+ strings, concatenated as the script concatenates them.  *)
(* A coordinate is the text the cache file holds for it; the text form of a *)
(* float is taken to survive the write/read of the cache file unchanged.    *)
(* A missing coordinate has three forms, as in the script: None in a dict   *)
(* appended by the loop, the empty cell in the cache file, NaN in a dict    *)
(* read back from the cache file.                                           *)
(***************************************************************************)
EXTENDS Integers, Sequences, FiniteSets, TLC

\* ---------------------------------------------------------------- bounds
\* number of ordinary, pairwise distinct employer rows after the special ones
MaxFill == 10
\* number of addresses, over all runs, whose full-address query does not hit
MaxFaults == 1
\* number of times the script is started
MaxRuns == 2
\* ------------------------------------------------------ program constants
\* the progress flush fires when completed % 10 == 0
FlushEvery == 10

None == "None"
NaN == "nan"
EmptyCell == ""

VARIABLES
  jobs_ga,           \* filtered input rows, normalised: [street, city, zip]
  cache,             \* the cache file: [exists, columns, rows]
  pc,                \* the statement the script is at
  runs,              \* how many times the script was started
  to_geocode,        \* pending (full_address, simple_address) rows
  geocoded_results,  \* the in-memory result list
  idx,               \* 1-based position of the loop in to_geocode
  location,          \* the loop's variable `location`
  jobs_ga_geo,       \* the merged, resolved rows
  startCache,        \* history: the cache file as this run found it
  known,             \* history: keys read from the cache file by any run
  iterLog,           \* history: geocoder calls of the latest iteration
  writes,            \* history: writes of the cache file by this run
  lost,              \* history: at a kill, results not in the cache file
  faults             \* history: full-address queries that did not hit

vars == <<jobs_ga, cache, pc, runs, to_geocode, geocoded_results, idx,
          location, jobs_ga_geo, startCache, known, iterLog, writes, lost,
          faults>>

\* ------------------------------------------------------- address strings
\* lines 24-29
FullAddress(r) ==
  r.street \o ", " \o r.city \o ", " \o "GA" \o " " \o r.zip

\* lines 32-36
SimpleAddress(r) ==
  r.city \o ", " \o "GA" \o " " \o r.zip

AddressPair(r) ==
  [full_address |-> FullAddress(r), simple_address |-> SimpleAddress(r)]

AddressPairs(rows) ==
  [i \in 1..Len(rows) |-> AddressPair(rows[i])]

InSeq(x, s) ==
  \E i \in 1..Len(s) : s[i] = x

\* DataFrame.drop_duplicates: the first occurrence of each row, in order
RECURSIVE DropDuplicates(_)
DropDuplicates(s) ==
  IF s = <<>> THEN <<>>
  ELSE LET front == DropDuplicates(SubSeq(s, 1, Len(s) - 1))
           last == s[Len(s)]
       IN  IF InSeq(last, front) THEN front ELSE Append(front, last)

\* line 39
UniqueAddresses(rows) ==
  DropDuplicates(AddressPairs(rows))

\* -------------------------------------------------------- the cache file
Keys(rows) ==
  {rows[i].full_address : i \in 1..Len(rows)}

\* a coordinate as DataFrame.to_csv writes it: None and NaN become ''
ToCsvCell(v) ==
  IF v = None \/ v = NaN THEN EmptyCell ELSE v

\* a coordinate as read_csv reads it: '' becomes NaN
FromCsvCell(c) ==
  IF c = EmptyCell THEN NaN ELSE c

ToCsvRow(e) ==
  [full_address |-> e.full_address,
   latitude |-> ToCsvCell(e.latitude),
   longitude |-> ToCsvCell(e.longitude)]

FromCsvRow(r) ==
  [full_address |-> r.full_address,
   latitude |-> FromCsvCell(r.latitude),
   longitude |-> FromCsvCell(r.longitude)]

\* a flush that writes only the entries with coordinates
ToCsvFound(results) ==
  LET found == SelectSeq(results, LAMBDA e : e.latitude # None /\ e.latitude # NaN)
  IN  [exists |-> TRUE,
       columns |-> results # <<>>,
       rows |-> [i \in 1..Len(found) |-> ToCsvRow(found[i])]]

\* pd.DataFrame(results).to_csv(CACHE_FILE, index=False): the whole list,
\* replacing the file; an empty list gives a frame, and a file, without
\* the three columns
ToCsv(results) ==
  [exists |-> TRUE,
   columns |-> results # <<>>,
   rows |-> [i \in 1..Len(results) |-> ToCsvRow(results[i])]]

\* a load that keeps only the rows with coordinates
ReadCsvFound(file) ==
  LET found == SelectSeq(file.rows, LAMBDA r : r.latitude # EmptyCell)
  IN  [i \in 1..Len(found) |-> FromCsvRow(found[i])]

\* pd.read_csv(CACHE_FILE).to_dict("records")
ReadCsv(file) ==
  [i \in 1..Len(file.rows) |-> FromCsvRow(file.rows[i])]

\* the filter of line 50 left out
PendingAll(unique, already_geocoded) ==
  unique

\* line 50
Pending(unique, already_geocoded) ==
  SelectSeq(unique, LAMBDA p : p.full_address \notin already_geocoded)

\* a progress check that fires one entry late
FlushDueOffByOne(completed) ==
  completed % FlushEvery = 1

\* a progress check with a longer period
FlushDueLate(completed) ==
  completed % (FlushEvery + 1) = 0

\* line 100
FlushDue(completed) ==
  completed % FlushEvery = 0

\* ------------------------------------------------------------ the geocoder
\* the Location the service returns for a query string
Location(q) ==
  [latitude |-> "lat(" \o q \o ")", longitude |-> "lon(" \o q \o ")"]

NoLocation == [latitude |-> None, longitude |-> None]

PositiveEntry(a, loc) ==
  [full_address |-> a, latitude |-> loc.latitude, longitude |-> loc.longitude]

NegativeEntry(a) ==
  [full_address |-> a, latitude |-> None, longitude |-> None]

\* DataFrame.dropna / notna on a coordinate
IsNa(v) ==
  v = None \/ v = NaN

\* ------------------------------------------------------------------ inputs
Row(street, city) ==
  [street |-> street, city |-> city, zip |-> "31201"]

\* two rows with different (city) fields and the same full address
SuiteInStreet == Row("1 Oak St, Ste 2", "Macon")
SuiteInCity == Row("1 Oak St", "Ste 2, Macon")

FillRow(i) ==
  Row(ToString(i) \o " Pine Rd", "Albany")

FillRows(n) ==
  [i \in 1..n |-> FillRow(i)]

SpecialRows ==
  { <<>>,
    <<SuiteInStreet, SuiteInStreet>>,
    <<SuiteInStreet, SuiteInCity>>,
    <<SuiteInCity, SuiteInStreet, SuiteInCity>> }

InputRows ==
  {s \o FillRows(n) : s \in SpecialRows, n \in 0..MaxFill}

\* a row an earlier run left for an address that is no longer in the input
ForeignEntry ==
  PositiveEntry("9 Elm Ave, Dalton, GA 30720",
                Location("9 Elm Ave, Dalton, GA 30720"))

\* the file an earlier run left: the foreign row or not, then a row for
\* each of the first k distinct full addresses, found and not found in turn
EarlierCache(rows, foreign, k) ==
  LET unique == UniqueAddresses(rows)
      keys == DropDuplicates([i \in 1..Len(unique) |-> unique[i].full_address])
  IN  ToCsv((IF foreign THEN <<ForeignEntry>> ELSE <<>>)
            \o [i \in 1..k |->
                  IF i % 2 = 1
                  THEN PositiveEntry(keys[i], Location(keys[i]))
                  ELSE NegativeEntry(keys[i])])

NoCache == [exists |-> FALSE, columns |-> FALSE, rows |-> <<>>]

CacheFiles(rows) ==
  {NoCache} \cup
  { EarlierCache(rows, fk[1], fk[2]) :
      fk \in { x \in BOOLEAN \X (0..Cardinality(Keys(UniqueAddresses(rows)))) :
                 x[1] \/ x[2] > 0 } }

\* -------------------------------------------------------------------- Init
Init ==
  /\ jobs_ga \in InputRows
  /\ cache \in CacheFiles(jobs_ga)
  /\ pc = "boot"
  /\ runs = 0
  /\ to_geocode = <<>>
  /\ geocoded_results = <<>>
  /\ idx = 0
  /\ location = NoLocation
  /\ jobs_ga_geo = <<>>
  /\ startCache = NoCache
  /\ known = {}
  /\ iterLog = <<>>
  /\ writes = 0
  /\ lost = 0
  /\ faults = 0

\* ----------------------------------------------------------------- actions
address == to_geocode[idx].full_address
simple_addr == to_geocode[idx].simple_address

\* lines 13-59: start the script, read the cache file, enter the loop
Start ==
  /\ pc \in {"boot", "killed", "crashed", "done"}
  /\ runs < MaxRuns
  /\ runs' = runs + 1
  /\ iterLog' = <<>>
  /\ writes' = 0
  /\ lost' = 0
  /\ location' = NoLocation
  /\ jobs_ga_geo' = <<>>
  /\ startCache' = cache
  /\ IF cache.exists /\ ~cache.columns
     THEN \* line 49: KeyError 'full_address'
          /\ pc' = "crashed"
          /\ to_geocode' = <<>>
          /\ geocoded_results' = <<>>
          /\ idx' = 0
          /\ known' = known
     ELSE LET unique_addresses == UniqueAddresses(jobs_ga)
              to_do == IF cache.exists
                       THEN Pending(unique_addresses, Keys(cache.rows))
                       ELSE unique_addresses
          IN  /\ to_geocode' = to_do
              /\ geocoded_results' = IF cache.exists THEN ReadCsv(cache) ELSE <<>>
              /\ known' = known \cup Keys(cache.rows)
              /\ idx' = IF to_do = <<>> THEN 0 ELSE 1
              /\ pc' = IF to_do = <<>> THEN "final" ELSE "full"
  /\ UNCHANGED <<jobs_ga, cache, faults>>

\* what one call of the rate-limited geocode() can do
Outcomes == {"hit", "none", "raise"}

Call(q, out) ==
  [for |-> address, q |-> q, out |-> out]

\* line 69 without the fallback of lines 72-74
QueryFullNoFallback ==
  /\ pc = "full"
  /\ \E out \in Outcomes :
       /\ out # "hit" => faults < MaxFaults
       /\ faults' = IF out = "hit" THEN faults ELSE faults + 1
       /\ iterLog' = <<Call(address, out)>>
       /\ location' = IF out = "hit" THEN Location(address) ELSE NoLocation
       /\ pc' = IF out = "raise" THEN "except" ELSE "append"
  /\ UNCHANGED <<jobs_ga, cache, runs, to_geocode, geocoded_results, idx,
                 jobs_ga_geo, startCache, known, writes, lost>>

\* line 69: location = geocode(address)
QueryFull ==
  /\ pc = "full"
  /\ \E out \in Outcomes :
       /\ out # "hit" => faults < MaxFaults
       /\ faults' = IF out = "hit" THEN faults ELSE faults + 1
       /\ iterLog' = <<Call(address, out)>>
       /\ location' = IF out = "hit" THEN Location(address) ELSE NoLocation
       /\ pc' = CASE out = "raise" -> "except"
                  [] out = "none" /\ simple_addr # address -> "simple"
                  [] OTHER -> "append"
  /\ UNCHANGED <<jobs_ga, cache, runs, to_geocode, geocoded_results, idx,
                 jobs_ga_geo, startCache, known, writes, lost>>

\* line 74: location = geocode(simple_addr)
QuerySimple ==
  /\ pc = "simple"
  /\ \E out \in Outcomes :
       /\ iterLog' = Append(iterLog, Call(simple_addr, out))
       /\ location' = IF out = "hit" THEN Location(simple_addr) ELSE NoLocation
       /\ pc' = IF out = "raise" THEN "except" ELSE "append"
  /\ UNCHANGED <<jobs_ga, cache, runs, to_geocode, geocoded_results, idx,
                 jobs_ga_geo, startCache, known, writes, lost, faults>>

\* lines 76-87
AppendResult ==
  /\ pc = "append"
  /\ geocoded_results' =
       Append(geocoded_results,
              IF location # NoLocation
              THEN PositiveEntry(address, location)
              ELSE NegativeEntry(address))
  /\ pc' = "check"
  /\ UNCHANGED <<jobs_ga, cache, runs, to_geocode, idx, location, jobs_ga_geo,
                 startCache, known, iterLog, writes, lost, faults>>

\* an except branch that records nothing
HandleExceptionSkips ==
  /\ pc = "except"
  /\ pc' = "check"
  /\ UNCHANGED <<jobs_ga, cache, runs, to_geocode, geocoded_results, idx,
                 location, jobs_ga_geo, startCache, known, iterLog, writes,
                 lost, faults>>

\* an except branch that records the entry and re-raises
HandleExceptionAborts ==
  /\ pc = "except"
  /\ geocoded_results' = Append(geocoded_results, NegativeEntry(address))
  /\ pc' = "crashed"
  /\ UNCHANGED <<jobs_ga, cache, runs, to_geocode, idx, location, jobs_ga_geo,
                 startCache, known, iterLog, writes, lost, faults>>

\* lines 88-96
HandleException ==
  /\ pc = "except"
  /\ geocoded_results' = Append(geocoded_results, NegativeEntry(address))
  /\ pc' = "check"
  /\ UNCHANGED <<jobs_ga, cache, runs, to_geocode, idx, location, jobs_ga_geo,
                 startCache, known, iterLog, writes, lost, faults>>

\* lines 99-103, then the loop's next row (line 63)
ProgressFlush ==
  /\ pc = "check"
  /\ LET completed == Len(geocoded_results)
     IN  IF FlushDue(completed)
         THEN /\ cache' = ToCsv(geocoded_results)
              /\ writes' = writes + 1
         ELSE UNCHANGED <<cache, writes>>
  /\ IF idx < Len(to_geocode)
     THEN /\ idx' = idx + 1
          /\ pc' = "full"
          /\ location' = NoLocation
     ELSE /\ pc' = "final"
          /\ UNCHANGED <<idx, location>>
  /\ UNCHANGED <<jobs_ga, runs, to_geocode, geocoded_results, jobs_ga_geo,
                 startCache, known, iterLog, lost, faults>>

\* lines 106-107
FinalFlush ==
  /\ pc = "final"
  /\ cache' = ToCsv(geocoded_results)
  /\ writes' = writes + 1
  /\ pc' = "merge"
  /\ UNCHANGED <<jobs_ga, runs, to_geocode, geocoded_results, idx, location,
                 jobs_ga_geo, startCache, known, iterLog, lost, faults>>

\* jobs_ga.merge(geocoded_df, on="full_address", how="left"): for each left
\* row, in order, one joined row per matching right row, in order; a left
\* row without a match is kept with NaN coordinates
RECURSIVE LeftJoin(_, _, _)
LeftJoin(rows, results, i) ==
  IF i > Len(rows) THEN <<>>
  ELSE LET a == FullAddress(rows[i])
           matches == SelectSeq(results, LAMBDA e : e.full_address = a)
           joined == IF matches = <<>>
                     THEN << [row |-> i, full_address |-> a,
                              latitude |-> NaN, longitude |-> NaN] >>
                     ELSE [j \in 1..Len(matches) |->
                             [row |-> i, full_address |-> a,
                              latitude |-> matches[j].latitude,
                              longitude |-> matches[j].longitude]]
       IN  joined \o LeftJoin(rows, results, i + 1)

\* line 113
DropNa(joined) ==
  SelectSeq(joined, LAMBDA r : ~IsNa(r.latitude) /\ ~IsNa(r.longitude))

\* lines 108-113
Merge ==
  /\ pc = "merge"
  /\ IF geocoded_results = <<>>
     THEN \* line 108: KeyError 'latitude' on a frame without columns
          /\ pc' = "crashed"
          /\ UNCHANGED jobs_ga_geo
     ELSE /\ jobs_ga_geo' = DropNa(LeftJoin(jobs_ga, geocoded_results, 1))
          /\ pc' = "done"
  /\ UNCHANGED <<jobs_ga, cache, runs, to_geocode, geocoded_results, idx,
                 location, startCache, known, iterLog, writes, lost, faults>>

\* the process is killed inside the geocoding loop; only the file survives
Kill ==
  /\ pc \in {"full", "simple", "append", "except", "check"}
  /\ pc' = "killed"
  /\ lost' = Len(geocoded_results) - Len(cache.rows)
  /\ to_geocode' = <<>>
  /\ geocoded_results' = <<>>
  /\ idx' = 0
  /\ location' = NoLocation
  /\ iterLog' = <<>>
  /\ writes' = 0
  /\ startCache' = NoCache
  /\ UNCHANGED <<jobs_ga, cache, runs, jobs_ga_geo, known, faults>>

Next ==
  \/ Start
  \/ QueryFull
  \/ QuerySimple
  \/ AppendResult
  \/ HandleException
  \/ ProgressFlush
  \/ FinalFlush
  \/ Merge
  \/ Kill

Spec == Init /\ [][Next]_vars

InLoop == pc \in {"full", "simple", "append", "except", "check"}
Loaded == InLoop \/ pc \in {"final", "merge", "done"}

TypeOK ==
  /\ pc \in {"boot", "full", "simple", "append", "except", "check", "final",
             "merge", "done", "killed", "crashed"}
  /\ runs \in 0..MaxRuns
  /\ idx \in 0..Len(to_geocode)

\* ------------------------------------------------------------------ claims
Count(a, rows) ==
  Cardinality({i \in 1..Len(rows) : rows[i].full_address = a})

NoDuplicateKeys(rows) ==
  \A i, j \in 1..Len(rows) :
    rows[i].full_address = rows[j].full_address => i = j

InputKeys == Keys(AddressPairs(jobs_ga))

\* C1: an address that a run found in the cache file (with or without
\* coordinates) gets no loop iteration, no geocoder call and no new entry
\* in that run or in any later run.
C1_CachedNeverLookedUp ==
  Loaded =>
    \A a \in known :
      /\ \A i \in 1..idx : to_geocode[i].full_address # a
      /\ \A i \in 1..Len(iterLog) : iterLog[i].for # a
      /\ Count(a, geocoded_results) = Count(a, startCache.rows)

\* a second run that looked addresses up and finished, with a negative entry
\* for an input address in the file it started from
C1_Witness ==
  /\ pc = "done"
  /\ runs = 2
  /\ idx > 0
  /\ \E i \in 1..Len(startCache.rows) :
       /\ startCache.rows[i].latitude = EmptyCell
       /\ startCache.rows[i].full_address \in InputKeys

\* C2: if the cache file a run starts from has at most one entry per
\* full_address, the result list and the cache file have at most one entry
\* per full_address throughout the run.
C2_OneEntryPerAddress ==
  (Loaded /\ NoDuplicateKeys(startCache.rows)) =>
    /\ NoDuplicateKeys(geocoded_results)
    /\ NoDuplicateKeys(cache.rows)

Raised ==
  \E i \in 1..Len(iterLog) : iterLog[i].out = "raise"

Found(e) ==
  ~IsNa(e.latitude) /\ ~IsNa(e.longitude)

\* C4: after a completed run the resolved rows are exactly the input rows
\* whose address has an entry with coordinates: one resolved row per such
\* input row, carrying the entry's coordinates, and none for an input row
\* whose address has a negative entry.
C4_MergeExact ==
  pc = "done" =>
    \A i \in 1..Len(jobs_ga) :
      LET a == FullAddress(jobs_ga[i])
          entries == {k \in 1..Len(geocoded_results) :
                        geocoded_results[k].full_address = a}
          mine == {m \in 1..Len(jobs_ga_geo) : jobs_ga_geo[m].row = i}
      IN  /\ Cardinality(mine) <= 1
          /\ (mine # {}) <=> (\E k \in entries : Found(geocoded_results[k]))
          /\ (\E k \in entries : ~Found(geocoded_results[k])) => mine = {}
          /\ \A m \in mine, k \in entries :
               /\ jobs_ga_geo[m].latitude = geocoded_results[k].latitude
               /\ jobs_ga_geo[m].longitude = geocoded_results[k].longitude

RowSet(rows) ==
  {rows[i] : i \in 1..Len(rows)}

\* C5: a run that starts from a cache file holding a key for every input
\* address issues no lookup and leaves a cache file with the same rows.
C5_CoveringCacheUnchanged ==
  (pc \in {"merge", "done"} /\ startCache.exists
     /\ InputKeys \subseteq Keys(startCache.rows)) =>
    /\ idx = 0
    /\ iterLog = <<>>
    /\ writes = 1
    /\ Len(cache.rows) = Len(startCache.rows)
    /\ RowSet(cache.rows) = RowSet(startCache.rows)

\* a finished run over a covering cache file that also holds a negative row
\* and a row for an address outside the input
C5_Witness ==
  /\ pc = "done"
  /\ startCache.exists
  /\ InputKeys # {}
  /\ InputKeys \subseteq Keys(startCache.rows)
  /\ Keys(startCache.rows) \ InputKeys # {}
  /\ \E i \in 1..Len(startCache.rows) : startCache.rows[i].latitude = EmptyCell

\* C6: when the merge is reached, every input row's full_address is the key
\* of an entry of the final result table.
C6_EveryRecordHasEntry ==
  pc \in {"merge", "done"} =>
    \A i \in 1..Len(jobs_ga) :
      FullAddress(jobs_ga[i]) \in Keys(geocoded_results)

\* the merge is reached from a partial cache file after a last lookup that
\* raised
C6_Witness ==
  /\ pc = "merge"
  /\ startCache.exists
  /\ Keys(startCache.rows) \cap InputKeys # {}
  /\ to_geocode # <<>>
  /\ Raised

FirstHit ==
  CHOOSE i \in 1..Len(iterLog) :
    /\ iterLog[i].out = "hit"
    /\ \A j \in 1..(i - 1) : iterLog[j].out # "hit"

\* C7: an iteration without an exception calls the geocoder with
\* full_address, calls it with simple_address exactly when the first call
\* found nothing and the two addresses differ, and appends one entry keyed
\* by full_address: the coordinates of the first call that found something,
\* absent coordinates exactly when no call did.  No iteration makes more
\* than two calls.
C7_LookupAndFallback ==
  /\ Len(iterLog) <= 2
  /\ (pc = "check" /\ ~Raised) =>
       LET last == geocoded_results[Len(geocoded_results)]
           hit == \E i \in 1..Len(iterLog) : iterLog[i].out = "hit"
       IN  /\ Len(iterLog) >= 1
           /\ iterLog[1].q = address
           /\ (Len(iterLog) = 2) <=>
                (iterLog[1].out = "none" /\ simple_addr # address)
           /\ Len(iterLog) = 2 => iterLog[2].q = simple_addr
           /\ Len(geocoded_results) = Len(startCache.rows) + idx
           /\ last.full_address = address
           /\ hit => /\ last.latitude = Location(iterLog[FirstHit].q).latitude
                      /\ last.longitude = Location(iterLog[FirstHit].q).longitude
           /\ (last.latitude = None /\ last.longitude = None) <=> ~hit

\* the entry was appended from the result of the simple_address call
C7_Witness ==
  /\ pc = "check"
  /\ Len(iterLog) = 2
  /\ iterLog[2].out = "hit"

\* C8: when a geocoder call raises, one negative entry for the address is
\* appended and nothing else in the list changes; the loop then goes on to
\* the next pending address, or to the final flush after the last one, so
\* that a run that leaves the loop has an entry for every pending address.
C8_ExceptionRecordedLoopContinues ==
  /\ [](pc \in {"final", "merge", "done"} =>
          Len(geocoded_results) = Len(startCache.rows) + Len(to_geocode))
  /\ [][ /\ pc = "except" =>
             \/ pc' = "killed"
             \/ /\ geocoded_results' =
                     Append(geocoded_results, NegativeEntry(address))
                /\ pc' = "check"
                /\ idx' = idx
         /\ (pc = "check" /\ Raised) =>
             \/ pc' = "killed"
             \/ /\ geocoded_results' = geocoded_results
                /\ IF idx < Len(to_geocode)
                   THEN pc' = "full" /\ idx' = idx + 1
                   ELSE pc' = "final"
         /\ pc = "final" => (pc' = "merge" /\ writes' = writes + 1)
       ]_vars

\* the loop is at the next address after an iteration that raised
C8_Witness ==
  /\ pc = "full"
  /\ idx > 1
  /\ Raised
  /\ geocoded_results[Len(geocoded_results)] =
       NegativeEntry(to_geocode[idx - 1].full_address)

\* C9 as stated: the progress check writes the file exactly when the number
\* of lookups completed in this run is a multiple of 10; the final flush
\* writes it once more; nothing else writes it.
C9_FlushOnRunCount ==
  [][ /\ (pc = "check" /\ pc' # "killed") =>
            ((writes' = writes + 1) <=>
               ((Len(geocoded_results) - Len(startCache.rows)) % FlushEvery = 0))
      /\ pc = "final" => (writes' = writes + 1 /\ pc' = "merge")
      /\ pc \notin {"check", "final"} => cache' = cache
    ]_vars

\* C9 amended: the progress check writes the file exactly when the length
\* of the result list, entries loaded from the cache file included, is a
\* multiple of 10; the final flush writes it once more; nothing else
\* writes it.
C9_FlushOnListLength ==
  [][ /\ (pc = "check" /\ pc' # "killed") =>
            /\ (writes' = writes + 1) <=>
                  (Len(geocoded_results) % FlushEvery = 0)
            /\ writes' \in {writes, writes + 1}
            /\ writes' = writes => cache' = cache
      /\ pc = "final" => (writes' = writes + 1 /\ pc' = "merge")
      /\ pc \notin {"check", "final"} => cache' = cache
    ]_vars

\* a progress flush happened in a run that loaded a number of entries that
\* is not a multiple of 10
C9_Witness ==
  /\ pc = "full"
  /\ writes = 1
  /\ Len(startCache.rows) % FlushEvery # 0

\* C10: every write of the cache file writes the whole result list; the
\* file is always a prefix of the result list and keeps, unchanged, the
\* rows the run loaded.
C10_FlushWritesWholeList ==
  /\ [](Loaded =>
          /\ Len(cache.rows) <= Len(geocoded_results)
          /\ \A i \in 1..Len(cache.rows) :
               cache.rows[i] = ToCsvRow(geocoded_results[i])
          /\ Len(startCache.rows) <= Len(cache.rows)
          /\ \A i \in 1..Len(startCache.rows) :
               cache.rows[i] = startCache.rows[i])
  /\ [][ writes' = writes + 1 =>
           /\ Len(cache'.rows) = Len(geocoded_results)
           /\ \A i \in 1..Len(geocoded_results) :
                cache'.rows[i] = ToCsvRow(geocoded_results[i])
       ]_vars

\* after a progress flush on top of loaded rows, more entries were appended
C10_Witness ==
  /\ Loaded
  /\ writes >= 1
  /\ startCache.rows # <<>>
  /\ Len(cache.rows) > Len(startCache.rows)
  /\ Len(geocoded_results) > Len(cache.rows)
====
